---- MODULE Spec2Model ----
(***************************************************************************)
(* A model of MSLync/MSLyncURLandUpdateInfoProvider.py: the processor that *)
(* resolves a Lync installer's URL and pkginfo from Microsoft's update     *)
(* metadata feed.                                                          *)
(*                                                                         *)
(* Python strings are sequences of one-character strings, so substring     *)
(* search, replace, split, hex() and int() are computed, not assumed.      *)
(* A Python dict is a record of all its possible fields plus the set       *)
(* "keys" of the fields that are present; d.get(k) and d[k] read "keys".   *)
(* A call's outcome is a record [exc, what, val]: exc = "none" for a       *)
(* return, otherwise the class of the exception that leaves the call.      *)
(***************************************************************************)
EXTENDS Integers, Sequences, FiniteSets, TLC

VARIABLES
    cvalue,      \* valueToOSVersionString: the argument `value`
    cres,        \* valueToOSVersionString: the outcome of the call
    titem,       \* item-level helpers: the argument `item`
    tname,       \* item-level helpers: env["munki_update_name"] (or absent)
    tres,        \* item-level helpers: the helper called and its outcome
    metadata,    \* run: the feed as parsed by readPlistFromString
    envin,       \* run: the input variables of self.env
    pc,          \* run: position in get_lyncInstaller_info
    item,        \* run: the local `item`
    pkginfo,     \* run: the local `pkginfo`
    envout,      \* run: the output variables written to self.env
    outputs,     \* run: the self.output(...) notifications, in order
    err          \* run: the exception that ended the run, if any

vars == <<cvalue, cres, titem, tname, tres, metadata, envin, pc, item,
          pkginfo, envout, outputs, err>>

codecVars == <<cvalue, cres>>
itemVars == <<titem, tname, tres>>
runVars == <<metadata, envin, pc, item, pkginfo, envout, outputs, err>>

(***************************************************************************)
(* Bounds of the model.                                                    *)
(***************************************************************************)
MaxHexLen == 4      \* longest digit sequence of an OS-version string
MaxInt == 4200      \* largest integer OS-version value
MaxVersions == 3    \* longest Versions list of a trigger
MaxFeed == 2        \* most entries in the feed

(***************************************************************************)
(* Call outcomes.                                                          *)
(***************************************************************************)
Return(v) == [exc |-> "none", what |-> "", val |-> v]
Raise(e, w, d) == [exc |-> e, what |-> w, val |-> d]
Returned(r) == r.exc = "none"

(***************************************************************************)
(* Python str operations on character sequences.                           *)
(***************************************************************************)
Min2(a, b) == IF a <= b THEN a ELSE b

\* s[i:j] with 0-based, end-exclusive, clamped indices
Slice(s, i, j) == SubSeq(s, i + 1, Min2(j, Len(s)))

\* s[i:]
Drop(s, i) == SubSeq(s, i + 1, Len(s))

\* s.startswith(p)
StartsWith(s, p) == Len(s) >= Len(p) /\ SubSeq(s, 1, Len(p)) = p

\* sub in s
Contains(s, sub) ==
    \E i \in 0..(Len(s) - Len(sub)) : SubSeq(s, i + 1, i + Len(sub)) = sub

\* s.replace(old, ""): every non-overlapping occurrence, left to right
RECURSIVE Remove(_, _)
Remove(s, old) ==
    IF s = <<>> \/ old = <<>> THEN s
    ELSE IF StartsWith(s, old) THEN Remove(Drop(s, Len(old)), old)
    ELSE <<Head(s)>> \o Remove(Tail(s), old)

\* s.split(sep) for a one-character sep: always at least one piece
RECURSIVE SplitFrom(_, _, _)
SplitFrom(s, sep, cur) ==
    IF s = <<>> THEN <<cur>>
    ELSE IF Head(s) = sep THEN <<cur>> \o SplitFrom(Tail(s), sep, <<>>)
    ELSE SplitFrom(Tail(s), sep, Append(cur, Head(s)))

Split(s, sep) == SplitFrom(s, sep, <<>>)

(***************************************************************************)
(* Digits: hex(), int(s), int(s, 16) and "%s" of an int.                   *)
(***************************************************************************)
HexDigits == <<"0", "1", "2", "3", "4", "5", "6", "7", "8", "9",
               "a", "b", "c", "d", "e", "f">>

DecDigits == SubSeq(HexDigits, 1, 10)

IndexOf(c, digits) == CHOOSE i \in 1..Len(digits) : digits[i] = c

IsDigitOf(c, digits) == \E i \in 1..Len(digits) : digits[i] = c

\* hex(n)[2:] for n >= 0
RECURSIVE HexOf(_)
HexOf(n) ==
    IF n < 16 THEN <<HexDigits[n + 1]>>
    ELSE HexOf(n \div 16) \o <<HexDigits[(n % 16) + 1]>>

\* "%s" % n for n >= 0
RECURSIVE DecOf(_)
DecOf(n) ==
    IF n < 10 THEN <<DecDigits[n + 1]>>
    ELSE DecOf(n \div 10) \o <<DecDigits[(n % 10) + 1]>>

\* int(s, base) of a digit string; a ValueError is the value -1
RECURSIVE ParseAcc(_, _, _)
ParseAcc(s, digits, acc) ==
    IF s = <<>> THEN acc
    ELSE IF ~IsDigitOf(Head(s), digits) THEN -1
    ELSE ParseAcc(Tail(s), digits, acc * Len(digits) + IndexOf(Head(s), digits) - 1)

ParseInt(s, digits) == IF s = <<>> THEN -1 ELSE ParseAcc(s, digits, 0)

(***************************************************************************)
(* valueToOSVersionString (lines 142-173).                                 *)
(* A value is [isint, int, str]: an int, or a str.                         *)
(***************************************************************************)
IntValue(n) == [isint |-> TRUE, int |-> n, str |-> <<>>]
StrValue(s) == [isint |-> FALSE, int |-> 0, str |-> s]

\* lines 150-154: version_str is bound only on two of the three paths
VersionStrBound(value) == value.isint \/ StartsWith(value.str, <<"0", "x">>)

VersionStr(value) ==
    IF value.isint THEN HexOf(value.int) ELSE Drop(value.str, 2)

\* lines 163-166
MajorOf(s) ==
    IF Len(s) = 1 THEN ParseInt(Slice(s, 0, 1), DecDigits)
    ELSE IF Len(s) > 1 THEN ParseInt(Slice(s, 0, 2), DecDigits)
    ELSE 0

MinorOfDecimal(s) == IF Len(s) > 2 THEN ParseInt(<<s[3]>>, DecDigits) ELSE 0

\* lines 167-168
MinorOf(s) == IF Len(s) > 2 THEN ParseInt(<<s[3]>>, HexDigits) ELSE 0

\* lines 169-170
PatchOf(s) == IF Len(s) > 3 THEN ParseInt(<<s[4]>>, HexDigits) ELSE 0

Dotted(a, b, c) == DecOf(a) \o <<".">> \o DecOf(b) \o <<".">> \o DecOf(c)

valueToOSVersionString(value) ==
    IF ~VersionStrBound(value)
    THEN Raise("UnboundLocalError", "version_str", <<>>)
    ELSE LET s == VersionStr(value)
         IN  IF MajorOf(s) < 0 \/ MinorOf(s) < 0 \/ PatchOf(s) < 0
             THEN Raise("ProcessorError", "Unexpected value in version", <<>>)
             ELSE Return(Dotted(MajorOf(s), MinorOf(s), PatchOf(s)))

(***************************************************************************)
(* The codec on its own: one call on one value.                            *)
(***************************************************************************)
CodecChars == {"0", "1", "5", "8", "a", "f", "g"}

RECURSIVE StringsUpTo(_, _)
StringsUpTo(chars, n) ==
    IF n = 0 THEN {<<>>}
    ELSE LET shorter == StringsUpTo(chars, n - 1)
         IN  shorter \cup {Append(s, c) : s \in shorter, c \in chars}

CodecStrings ==
    LET body == StringsUpTo(CodecChars, MaxHexLen)
    IN  body \cup {<<"0", "x">> \o s : s \in body}

CodecValues ==
    {IntValue(n) : n \in 0..MaxInt} \cup {StrValue(s) : s \in CodecStrings}

NotRun == Raise("notrun", "", <<>>)

CodecInit ==
    /\ cvalue \in CodecValues
    /\ cres = NotRun

Decode ==
    /\ cres = NotRun
    /\ cres' = valueToOSVersionString(cvalue)
    /\ UNCHANGED cvalue


(***************************************************************************)
(* Feed entries.                                                           *)
(* An item is the dict of one update: "keys" holds the keys present.       *)
(* Triggers is a dict of trigger descriptors: [keys, d], d[k] the          *)
(* descriptor under key k; a descriptor is a dict with optional File and   *)
(* Versions.  Title and the Versions are character sequences; the other    *)
(* strings are only ever compared or copied.                               *)
(***************************************************************************)
TITLE_START == <<"L", "y", "n", "c", " ">>
TITLE_END == <<" ", "U", "p", "d", "a", "t", "e">>
MUNKI_UPDATE_NAME ==
    <<"L", "y", "n", "c", "_", "I", "n", "s", "t", "a", "l", "l", "e", "r">>
BASELINE == <<"1", "4", ".", "0", ".", "0">>
INFO_PLIST == "Contents/Info.plist"

TriggerKeys == {"Lync", "MAU"}

NoDesc == [keys |-> {}, File |-> "", Versions |-> <<>>]
NoTriggers == [keys |-> {}, d |-> [k \in TriggerKeys |-> NoDesc]]

\* d.get(k, default)
Get(d, k, default) == IF k \in d.keys THEN d[k] ELSE default

\* triggers.get(k, {})
GetTrigger(triggers, k) == IF k \in triggers.keys THEN triggers.d[k] ELSE NoDesc

(***************************************************************************)
(* sanityCheckExpectedTriggers (lines 80-90).  The messages are built with *)
(* item["Title"] and item["Trigger Condition"], which raise KeyError for a *)
(* key that is not there.                                                  *)
(***************************************************************************)
sanityCheckExpectedTriggers(it) ==
    IF ~("Trigger Condition" \in it.keys /\ it["Trigger Condition"] = <<"and", "Lync">>)
    THEN IF "Title" \notin it.keys THEN Raise("KeyError", "Title", <<>>)
         ELSE IF "Trigger Condition" \notin it.keys
         THEN Raise("KeyError", "Trigger Condition", <<>>)
         ELSE Raise("ProcessorError", "Unexpected Trigger Condition",
                    <<it.Title, it["Trigger Condition"]>>)
    ELSE IF "Lync" \notin Get(it, "Triggers", NoTriggers).keys
    THEN IF "Title" \notin it.keys THEN Raise("KeyError", "Title", <<>>)
         ELSE Raise("ProcessorError", "Missing expected MCP Trigger", <<it.Title>>)
    ELSE Return(<<>>)

(***************************************************************************)
(* LooseVersion of a string of digits and dots: the runs of digits as      *)
(* integers; two LooseVersions compare as Python lists do.                 *)
(***************************************************************************)
RECURSIVE DropEmpty(_)
DropEmpty(pieces) ==
    IF pieces = <<>> THEN <<>>
    ELSE IF Head(pieces) = <<>> THEN DropEmpty(Tail(pieces))
    ELSE <<Head(pieces)>> \o DropEmpty(Tail(pieces))

LooseVersion(s) ==
    LET pieces == DropEmpty(Split(s, "."))
    IN  [i \in 1..Len(pieces) |-> ParseInt(pieces[i], DecDigits)]

RECURSIVE ListLess(_, _)
ListLess(a, b) ==
    IF b = <<>> THEN FALSE
    ELSE IF a = <<>> THEN TRUE
    ELSE IF Head(a) # Head(b) THEN Head(a) < Head(b)
    ELSE ListLess(Tail(a), Tail(b))

\* sorted(xs, key=LooseVersion): a stable sort
RECURSIVE InsertByVersion(_, _)
InsertByVersion(x, sorted) ==
    IF sorted = <<>> THEN <<x>>
    ELSE IF ListLess(LooseVersion(x), LooseVersion(Head(sorted)))
    THEN <<x>> \o sorted
    ELSE <<Head(sorted)>> \o InsertByVersion(x, Tail(sorted))

RECURSIVE SortedByVersionAcc(_, _)
SortedByVersionAcc(xs, acc) ==
    IF xs = <<>> THEN acc
    ELSE SortedByVersionAcc(Tail(xs), InsertByVersion(Head(xs), acc))

SortedByVersion(xs) == SortedByVersionAcc(xs, <<>>)

(***************************************************************************)
(* getRequiresFromUpdateItem (lines 92-112).  None is <<>>; a returned     *)
(* list is never empty.                                                    *)
(***************************************************************************)
UpdateName(name) == Get(name, "munki_update_name", MUNKI_UPDATE_NAME)

McpVersions(it) ==
    Get(GetTrigger(Get(it, "Triggers", NoTriggers), "Lync"), "Versions", <<>>)

SmallestVersionUnsorted(versions) == versions[1]

SmallestVersion(versions) == SortedByVersion(versions)[1]

getRequiresFromUpdateItem(it, name) ==
    LET checked == sanityCheckExpectedTriggers(it)
    IN  IF ~Returned(checked) THEN checked
        ELSE IF McpVersions(it) = <<>> THEN Return(<<>>)
        ELSE IF SmallestVersion(McpVersions(it)) = BASELINE THEN Return(<<>>)
        ELSE Return(<<UpdateName(name) \o <<"-">> \o SmallestVersion(McpVersions(it))>>)

(***************************************************************************)
(* getVersion (lines 132-140) and getInstallsItems (lines 114-130).        *)
(***************************************************************************)
getVersion(it) == Remove(Remove(Get(it, "Title", <<>>), TITLE_START), TITLE_END)

PathsOfLyncOnly(triggers) ==
    {IF "File" \in triggers.d[k].keys THEN triggers.d[k].File ELSE "None" :
        k \in triggers.keys \cap {"Lync"}}

\* line 118: the File of every trigger; None for a trigger without one
Paths(triggers) ==
    {IF "File" \in triggers.d[k].keys THEN triggers.d[k].File ELSE "None" :
        k \in triggers.keys}

InstallsItem(it) ==
    [CFBundleShortVersionString |-> getVersion(it),
     CFBundleVersion |-> getVersion(it),
     path |-> "/Applications/Lync/Contents/Info.plist",
     type |-> "bundle",
     version_comparison_key |-> "CFBundleShortVersionString"]

getInstallsItems(it) ==
    LET checked == sanityCheckExpectedTriggers(it)
    IN  IF ~Returned(checked) THEN checked
        ELSE IF INFO_PLIST \in Paths(Get(it, "Triggers", NoTriggers))
        THEN Return(<<InstallsItem(it)>>)
        ELSE Return(<<>>)


(***************************************************************************)
(* The inputs: items, trigger dicts and env values the helpers are         *)
(* called with.                                                            *)
(***************************************************************************)
V1400 == BASELINE
V1401 == <<"1", "4", ".", "0", ".", "1">>
V1402 == <<"1", "4", ".", "0", ".", "2">>
V14010 == <<"1", "4", ".", "0", ".", "1", "0">>
V401 == <<"4", ".", "0", ".", "1">>
V91 == <<"9", ".", "1">>

TitleOf(v) == TITLE_START \o v \o TITLE_END

Desc(keys, file, versions) == [keys |-> keys, File |-> file, Versions |-> versions]

Triggers(keys, lync, mau) ==
    [keys |-> keys,
     d |-> [k \in TriggerKeys |->
               IF k \notin keys THEN NoDesc ELSE IF k = "Lync" THEN lync ELSE mau]]

ItemKeys ==
    {"Title", "Date", "Location", "Payload", "Short Description", "Min OS",
     "Max OS", "Trigger Condition", "Triggers"}

\* an item whose keys are ItemKeys \ absent
Item(absent, title, date, minos, maxos, condition, triggers) ==
    ("keys" :> (ItemKeys \ absent)) @@ ("Title" :> title) @@ ("Date" :> date)
    @@ ("Location" :> IF date = 1 THEN "https://cdn/lync-a.dmg" ELSE "https://cdn/lync-b.dmg")
    @@ ("Payload" :> "Lync Installer.pkg")
    @@ ("Short Description" :> "Lync update")
    @@ ("Min OS" :> minos) @@ ("Max OS" :> maxos)
    @@ ("Trigger Condition" :> IF "Trigger Condition" \in absent THEN <<>> ELSE condition)
    @@ ("Triggers" :> IF "Triggers" \in absent THEN NoTriggers ELSE triggers)

NoEnv == [keys |-> {}, version |-> <<>>, munki_update_name |-> <<>>]

Env(keys, version, name) ==
    [keys |-> keys,
     version |-> IF "version" \in keys THEN version ELSE <<>>,
     munki_update_name |-> IF "munki_update_name" \in keys THEN name ELSE <<>>]

DASHED_NAME == <<"L", "y", "n", "c", "-", "U", "p">>

UpdateNames == {Env({}, <<>>, <<>>), Env({"munki_update_name"}, <<>>, DASHED_NAME)}

(***************************************************************************)
(* The item-level helpers on their own: one call on one item.              *)
(***************************************************************************)
VersionStrings == {V1400, V1401, V14010, V91}

RECURSIVE ListsUpTo(_, _)
ListsUpTo(elems, n) ==
    IF n = 0 THEN {<<>>}
    ELSE LET shorter == ListsUpTo(elems, n - 1)
         IN  shorter \cup {Append(l, e) : l \in shorter, e \in elems}

LyncDescs ==
    {Desc(fk \cup {"Versions"}, IF fk = {} THEN "" ELSE INFO_PLIST, vs) :
        fk \in {{}, {"File"}}, vs \in ListsUpTo(VersionStrings, MaxVersions)}
    \cup {Desc({}, "", <<>>), Desc({"File"}, INFO_PLIST, <<>>)}

MauDescs ==
    {Desc({}, "", <<>>), Desc({"File"}, INFO_PLIST, <<>>),
     Desc({"File"}, "Contents/MacOS/MAU", <<>>)}

TriggerDicts ==
    {Triggers(keys, lync, mau) :
        keys \in SUBSET TriggerKeys,
        lync \in LyncDescs, mau \in MauDescs}

TriggerConditions ==
    {<<"and", "Lync">>, <<"or", "Lync">>, <<"and", "MAU">>}

HelperItems ==
    {Item({}, TitleOf(v), 1, IntValue(4184), IntValue(0), c, t) :
        v \in {V1401, V401}, c \in TriggerConditions, t \in TriggerDicts}
    \cup {Item({"Trigger Condition"}, TitleOf(V1401), 1, IntValue(4184), IntValue(0), <<>>, t) :
        t \in TriggerDicts}
    \cup {Item({"Triggers"}, TitleOf(V1401), 1, IntValue(4184), IntValue(0), c, NoTriggers) :
        c \in TriggerConditions}

NotCalled == [op |-> "none", out |-> NotRun]

ItemInit ==
    /\ titem \in HelperItems
    /\ tname \in UpdateNames
    /\ tres = NotCalled

CallSanityCheck ==
    /\ tres = NotCalled
    /\ tres' = [op |-> "sanityCheckExpectedTriggers",
                out |-> sanityCheckExpectedTriggers(titem)]
    /\ UNCHANGED <<titem, tname>>

CallGetRequires ==
    /\ tres = NotCalled
    /\ tres' = [op |-> "getRequiresFromUpdateItem",
                out |-> getRequiresFromUpdateItem(titem, tname)]
    /\ UNCHANGED <<titem, tname>>

CallGetInstalls ==
    /\ tres = NotCalled
    /\ tres' = [op |-> "getInstallsItems", out |-> getInstallsItems(titem)]
    /\ UNCHANGED <<titem, tname>>


(***************************************************************************)
(* get_lyncInstaller_info (lines 175-248).                                 *)
(***************************************************************************)
LATEST == <<"l", "a", "t", "e", "s", "t">>

\* lines 177-181
BaseUrl(env) ==
    IF "base_url" \in env.keys THEN "env[base_url]" ELSE "BASE_URL % culture_code"

\* lines 182-184: an absent or empty version is "latest"
VersionSelector(env) ==
    IF Get(env, "version", <<>>) = <<>> THEN LATEST ELSE env.version

RECURSIVE InsertBeforeEqualDate(_, _)
InsertBeforeEqualDate(x, sorted) ==
    IF sorted = <<>> THEN <<x>>
    ELSE IF x.Date <= Head(sorted).Date THEN <<x>> \o sorted
    ELSE <<Head(sorted)>> \o InsertBeforeEqualDate(x, Tail(sorted))

\* line 200: sorted(metadata, key=itemgetter('Date')), a stable sort
RECURSIVE InsertByDate(_, _)
InsertByDate(x, sorted) ==
    IF sorted = <<>> THEN <<x>>
    ELSE IF x.Date < Head(sorted).Date THEN <<x>> \o sorted
    ELSE <<Head(sorted)>> \o InsertByDate(x, Tail(sorted))

RECURSIVE SortedByDateAcc(_, _)
SortedByDateAcc(xs, acc) ==
    IF xs = <<>> THEN acc
    ELSE SortedByDateAcc(Tail(xs), InsertByDate(Head(xs), acc))

SortedByDate(xs) == SortedByDateAcc(xs, <<>>)

\* lines 200-202: sorted_metadata[-1] raises IndexError on an empty list
SelectLatest(feed) ==
    IF feed = <<>> THEN Raise("IndexError", "list index out of range", <<>>)
    ELSE Return(<<SortedByDate(feed)[Len(feed)]>>)

Unpadded(version) == version

\* line 209
Padded(version) == <<" ">> \o version \o <<" ">>

\* lines 210-211
MatchedItems(feed, version) ==
    SelectSeq(feed, LAMBDA it : Contains(it.Title, Padded(version)))

TitlesOf(feed) == [i \in 1..Len(feed) |-> feed[i].Title]

\* lines 209-218
SelectVersion(feed, version) ==
    IF Len(MatchedItems(feed, version)) # 1
    THEN Raise("ProcessorError", "Could not find version", <<version, TitlesOf(feed)>>)
    ELSE Return(<<MatchedItems(feed, version)[1]>>)

\* lines 197-218; the selected item is the one element of val
SelectItem(feed, version) ==
    IF version = LATEST THEN SelectLatest(feed) ELSE SelectVersion(feed, version)

NoPkginfo ==
    [keys |-> {}, description |-> <<>>, display_name |-> <<>>,
     maximum_os_version |-> <<>>, minimum_os_version |-> <<>>,
     installs |-> <<>>, requires |-> <<>>, name |-> <<>>]

NoOutput ==
    [keys |-> {}, url |-> "", pkg_name |-> "", additional_pkginfo |-> NoPkginfo,
     display_name |-> <<>>]

NoItem == Item(ItemKeys, <<>>, 0, IntValue(0), IntValue(0), <<>>, NoTriggers)

NoError == Raise("none", "", <<>>)

\* d[k] = v
Set(d, k, v) == [d EXCEPT !.keys = @ \cup {k}, ![k] = v]

Note(what, arg) == [what |-> what, arg |-> arg]

\* lines 229-234
WithOSVersions(info, maxos, minos) ==
    LET a == IF maxos # <<"0", ".", "0", ".", "0">>
             THEN Set(info, "maximum_os_version", maxos) ELSE info
    IN  IF minos # <<"0", ".", "0", ".", "0">>
        THEN Set(a, "minimum_os_version", minos) ELSE a

\* line 243: requires[0].split("-")[1]
CitedVersion(requires) == Split(requires[1], "-")[2]

(***************************************************************************)
(* The feeds and env inputs of a run.                                      *)
(***************************************************************************)
Dates == {1, 2}

FullLync == Desc({"File", "Versions"}, INFO_PLIST, <<V14010, V1402>>)
BaseLync == Desc({"Versions"}, "", <<V1401, V1400>>)
MauPlist == Desc({"File"}, INFO_PLIST, <<>>)

NoFileLync == Desc({}, "", <<>>)
MauOther == Desc({"File"}, "Contents/MacOS/MAU", <<>>)
HexZero == StrValue(<<"0", "x", "0", "0", "0", "0">>)

\* entries that pass every stage: each Title at each Date, with a Lync
\* trigger that has the plist and prior versions; with the baseline version
\* and the plist under another trigger; and one entry with neither
GoodItems ==
    {Item({}, TitleOf(v), d, IntValue(4184), HexZero, <<"and", "Lync">>, t) :
        v \in {V1401, V401}, d \in Dates,
        t \in {Triggers({"Lync"}, FullLync, NoDesc),
               Triggers({"Lync", "MAU"}, BaseLync, MauPlist)}}
    \cup {Item({}, TitleOf(V401), 1, IntValue(0), IntValue(4184), <<"and", "Lync">>,
                Triggers({"Lync", "MAU"}, NoFileLync, MauOther))}

\* entries that fail a stage: an OS value without "0x", an OS value with a
\* bad digit, no Trigger Condition, an unexpected Trigger Condition, no
\* Lync trigger
BadItems ==
    {Item({}, TitleOf(V1401), 2, StrValue(<<"1", "0", "5", "8">>), IntValue(0),
          <<"and", "Lync">>, Triggers({"Lync"}, FullLync, NoDesc)),
     Item({}, TitleOf(V401), 2, IntValue(4184), StrValue(<<"0", "x", "1", "0", "g">>),
          <<"and", "Lync">>, Triggers({"Lync"}, FullLync, NoDesc)),
     Item({"Trigger Condition"}, TitleOf(V401), 1, IntValue(4184), IntValue(0),
          <<>>, Triggers({"Lync"}, FullLync, NoDesc)),
     Item({}, TitleOf(V1401), 1, IntValue(4184), IntValue(0),
          <<"or", "Lync">>, Triggers({"Lync"}, FullLync, NoDesc)),
     Item({}, TitleOf(V401), 2, IntValue(0), IntValue(0),
          <<"and", "Lync">>, Triggers({"MAU"}, NoDesc, MauPlist))}

FeedItems == GoodItems \cup BadItems

Feeds == ListsUpTo(FeedItems, MaxFeed)

RunEnvs ==
    {Env(keys, v, DASHED_NAME) :
        keys \in SUBSET {"version", "munki_update_name"},
        v \in {<<>>, LATEST, V401}}

RunInit ==
    /\ envin \in RunEnvs
    /\ metadata = <<>>
    /\ pc = "download"
    /\ item = NoItem
    /\ pkginfo = NoPkginfo
    /\ envout = NoOutput
    /\ outputs = <<>>
    /\ err = NoError

Fail(e) ==
    /\ err' = e
    /\ pc' = "failed"

\* lines 191-194: self.download raises
DownloadFails ==
    /\ pc = "download"
    /\ Fail(Raise("ProcessorError", "Can't download", <<BaseUrl(envin)>>))
    /\ UNCHANGED <<metadata, envin, item, pkginfo, envout, outputs>>

\* lines 191-196: self.download returns and the plist is parsed
DownloadReturns ==
    /\ pc = "download"
    /\ metadata' \in Feeds
    /\ pc' = "select"
    /\ UNCHANGED <<envin, item, pkginfo, envout, outputs, err>>

\* lines 197-218
Select ==
    /\ pc = "select"
    /\ LET r == SelectItem(metadata, VersionSelector(envin))
       IN  IF Returned(r)
           THEN /\ item' = r.val[1]
                /\ pc' = "publish"
                /\ UNCHANGED err
           ELSE /\ Fail(r)
                /\ UNCHANGED item
    /\ UNCHANGED <<metadata, envin, pkginfo, envout, outputs>>

PublishWithDisplayName ==
    /\ pc = "publish"
    /\ envout' = Set(Set(Set(envout, "url", item.Location), "pkg_name", item.Payload),
                     "display_name", item.Title)
    /\ outputs' = outputs \o <<Note("Found URL", item.Location),
                               Note("Got update", item.Title)>>
    /\ pkginfo' = Set(Set(pkginfo, "description",
                          <<"<html>", item["Short Description"], "</html>">>),
                      "display_name", item.Title)
    /\ pc' = "os"
    /\ UNCHANGED <<metadata, envin, item, err>>

\* lines 220-228
Publish ==
    /\ pc = "publish"
    /\ envout' = Set(Set(envout, "url", item.Location), "pkg_name", item.Payload)
    /\ outputs' = outputs \o <<Note("Found URL", item.Location),
                               Note("Got update", item.Title)>>
    /\ pkginfo' = Set(Set(pkginfo, "description",
                          <<"<html>", item["Short Description"], "</html>">>),
                      "display_name", item.Title)
    /\ pc' = "os"
    /\ UNCHANGED <<metadata, envin, item, err>>

\* lines 229-234: Max OS is decoded before Min OS
DecodeOS ==
    /\ pc = "os"
    /\ LET maxos == valueToOSVersionString(item["Max OS"])
           minos == valueToOSVersionString(item["Min OS"])
       IN  IF ~Returned(maxos) THEN Fail(maxos) /\ UNCHANGED pkginfo
           ELSE IF ~Returned(minos) THEN Fail(minos) /\ UNCHANGED pkginfo
           ELSE /\ pkginfo' = WithOSVersions(pkginfo, maxos.val, minos.val)
                /\ pc' = "installs"
                /\ UNCHANGED err
    /\ UNCHANGED <<metadata, envin, item, envout, outputs>>

\* lines 235-237
Installs ==
    /\ pc = "installs"
    /\ LET r == getInstallsItems(item)
       IN  IF ~Returned(r) THEN Fail(r) /\ UNCHANGED pkginfo
           ELSE /\ pkginfo' = IF r.val # <<>> THEN Set(pkginfo, "installs", r.val)
                              ELSE pkginfo
                /\ pc' = "requires"
                /\ UNCHANGED err
    /\ UNCHANGED <<metadata, envin, item, envout, outputs>>

\* lines 238-243
Requires ==
    /\ pc = "requires"
    /\ LET r == getRequiresFromUpdateItem(item, envin)
       IN  IF ~Returned(r) THEN Fail(r) /\ UNCHANGED <<pkginfo, outputs>>
           ELSE /\ pkginfo' = IF r.val # <<>> THEN Set(pkginfo, "requires", r.val)
                              ELSE pkginfo
                /\ outputs' = IF r.val # <<>>
                              THEN Append(outputs,
                                          Note("Update requires previous update version",
                                               CitedVersion(r.val)))
                              ELSE outputs
                /\ pc' = "finish"
                /\ UNCHANGED err
    /\ UNCHANGED <<metadata, envin, item, envout>>

\* lines 245-248
Finish ==
    /\ pc = "finish"
    /\ LET info == Set(pkginfo, "name", UpdateName(envin))
       IN  /\ pkginfo' = info
           /\ envout' = Set(Set(envout, "additional_pkginfo", info),
                            "display_name", info.display_name)
           /\ outputs' = Append(outputs, Note("Additional pkginfo", info))
    /\ pc' = "done"
    /\ UNCHANGED <<metadata, envin, item, err>>

(***************************************************************************)
(* Specifications: a run of the processor; one call of the codec; one call *)
(* of an item-level helper.  Each leaves the other parts idle.             *)
(***************************************************************************)
CodecIdle == cvalue = IntValue(0) /\ cres = NotRun
ItemIdle == titem = NoItem /\ tname = NoEnv /\ tres = NotCalled
RunIdle ==
    /\ envin = NoEnv /\ metadata = <<>> /\ pc = "idle" /\ item = NoItem
    /\ pkginfo = NoPkginfo /\ envout = NoOutput /\ outputs = <<>> /\ err = NoError

Init == RunInit /\ CodecIdle /\ ItemIdle

Next ==
    \/ DownloadFails /\ UNCHANGED <<codecVars, itemVars>>
    \/ DownloadReturns /\ UNCHANGED <<codecVars, itemVars>>
    \/ Select /\ UNCHANGED <<codecVars, itemVars>>
    \/ Publish /\ UNCHANGED <<codecVars, itemVars>>
    \/ DecodeOS /\ UNCHANGED <<codecVars, itemVars>>
    \/ Installs /\ UNCHANGED <<codecVars, itemVars>>
    \/ Requires /\ UNCHANGED <<codecVars, itemVars>>
    \/ Finish /\ UNCHANGED <<codecVars, itemVars>>

Spec == Init /\ [][Next]_vars

InitCodec == CodecInit /\ ItemIdle /\ RunIdle

NextCodec == Decode /\ UNCHANGED <<itemVars, runVars>>

SpecCodec == InitCodec /\ [][NextCodec]_vars

InitItem == ItemInit /\ CodecIdle /\ RunIdle

NextItem ==
    \/ CallSanityCheck /\ UNCHANGED <<codecVars, runVars>>
    \/ CallGetRequires /\ UNCHANGED <<codecVars, runVars>>
    \/ CallGetInstalls /\ UNCHANGED <<codecVars, runVars>>

SpecItem == InitItem /\ [][NextItem]_vars


(***************************************************************************)
(* What the statements below say, written without the code's operators:    *)
(* digit values by table, version order by position, validity by shape.    *)
(***************************************************************************)
ClaimHexValue ==
    ("0" :> 0) @@ ("1" :> 1) @@ ("2" :> 2) @@ ("3" :> 3) @@ ("4" :> 4) @@ ("5" :> 5)
    @@ ("6" :> 6) @@ ("7" :> 7) @@ ("8" :> 8) @@ ("9" :> 9) @@ ("a" :> 10)
    @@ ("b" :> 11) @@ ("c" :> 12) @@ ("d" :> 13) @@ ("e" :> 14) @@ ("f" :> 15)

ClaimIsHexSeq(s) == \A i \in 1..Len(s) : s[i] \in DOMAIN ClaimHexValue

\* the digit values of the hexadecimal rendering of n, most significant first
RECURSIVE ClaimDigitsOfInt(_)
ClaimDigitsOfInt(n) ==
    IF n < 16 THEN <<n>> ELSE Append(ClaimDigitsOfInt(n \div 16), n % 16)

ClaimDigitsOfStr(s) == [i \in 1..Len(s) |-> ClaimHexValue[s[i]]]

RECURSIVE ClaimIntOfDigits(_)
ClaimIntOfDigits(dv) ==
    IF dv = <<>> THEN 0
    ELSE 16 * ClaimIntOfDigits(SubSeq(dv, 1, Len(dv) - 1)) + dv[Len(dv)]

\* the digits of the major part are decimal digits
ClaimParses(dv) == \A i \in 1..Min2(2, Len(dv)) : dv[i] <= 9

ClaimDecoded(dv) ==
    Dotted(IF Len(dv) = 1 THEN dv[1] ELSE 10 * dv[1] + dv[2],
           IF Len(dv) > 2 THEN dv[3] ELSE 0,
           IF Len(dv) > 3 THEN dv[4] ELSE 0)

ClaimExpected(dv) ==
    IF ClaimParses(dv) THEN cres = Return(ClaimDecoded(dv))
    ELSE cres.exc = "ProcessorError"

\* the value is "0x" + s for a hex-digit sequence s of length 1 to 4
ClaimIsHexString(value) ==
    /\ ~value.isint
    /\ StartsWith(value.str, <<"0", "x">>)
    /\ Len(value.str) \in 3..6
    /\ ClaimIsHexSeq(Drop(value.str, 2))

\* s is the hexadecimal rendering of an integer
ClaimCanonical(s) == Len(s) = 1 \/ s[1] # "0"

\* C6: for a hex-digit sequence s of length 1 to 4, given as "0x"+s or as the
\* integer whose hexadecimal rendering is s, valueToOSVersionString returns
\* "major.minor.patch" with major the decimal value of s[0] or s[0:2], minor
\* and patch the hex values of s[2] and s[3] (0 when absent); the string and
\* the integer form give the same result; "0x1058" and 4184 give "10.5.8",
\* "0x0000" and 0 give "0.0.0"; it fails with the processing error exactly
\* when a digit of the major part is not decimal.
C6_DecodeMapping ==
    cres # NotRun =>
        /\ ClaimIsHexString(cvalue) =>
              /\ ClaimExpected(ClaimDigitsOfStr(Drop(cvalue.str, 2)))
              /\ ClaimCanonical(Drop(cvalue.str, 2)) =>
                    cres = valueToOSVersionString(
                               IntValue(ClaimIntOfDigits(
                                   ClaimDigitsOfStr(Drop(cvalue.str, 2)))))
        /\ (cvalue.isint /\ cvalue.int < 65536) =>
              ClaimExpected(ClaimDigitsOfInt(cvalue.int))
        /\ cvalue \in {StrValue(<<"0", "x", "1", "0", "5", "8">>), IntValue(4184)} =>
              cres = Return(<<"1", "0", ".", "5", ".", "8">>)
        /\ cvalue \in {StrValue(<<"0", "x", "0", "0", "0", "0">>), IntValue(0)} =>
              cres = Return(<<"0", ".", "0", ".", "0">>)

C6_Witness ==
    /\ cvalue = StrValue(<<"0", "x", "1", "0", "a", "8">>)
    /\ cres = Return(<<"1", "0", ".", "1", "0", ".", "8">>)

\* C7: a Min OS / Max OS string that does not begin with "0x" ends the call
\* with the descriptive processing error, the error of an unparsable digit.
C7_UnprefixedIsDecodeError ==
    (cres # NotRun /\ ~cvalue.isint /\ ~StartsWith(cvalue.str, <<"0", "x">>)) =>
        cres.exc = "ProcessorError"

ClaimValid(it) ==
    /\ "Trigger Condition" \in it.keys
    /\ it["Trigger Condition"] = <<"and", "Lync">>
    /\ "Triggers" \in it.keys
    /\ "Lync" \in it.Triggers.keys

\* C4: sanityCheckExpectedTriggers fails with the descriptive processing
\* error for every entry whose Trigger Condition is not exactly
\* ["and", "Lync"], an entry without the field included, and for every entry
\* whose Triggers lack "Lync"; it passes exactly when both are as expected.
C4_ValidateRejectsWithProcessorError ==
    tres.op = "sanityCheckExpectedTriggers" =>
        IF ClaimValid(titem) THEN tres.out = Return(<<>>)
        ELSE tres.out.exc = "ProcessorError"

\* a precedes or equals b in dotted loose-version order: at the first
\* component where they differ a is smaller, or a is a prefix of b
ClaimVersionLeq(a, b) ==
    LET ka == LooseVersion(a)
        kb == LooseVersion(b)
    IN  \/ /\ Len(ka) <= Len(kb)
           /\ \A i \in 1..Len(ka) : ka[i] = kb[i]
        \/ \E i \in 1..Min2(Len(ka), Len(kb)) :
              /\ \A j \in 1..(i - 1) : ka[j] = kb[j]
              /\ ka[i] < kb[i]

ClaimMinimum(versions) ==
    CHOOSE m \in {versions[i] : i \in 1..Len(versions)} :
        \A i \in 1..Len(versions) : ClaimVersionLeq(m, versions[i])

ClaimVersions(it) ==
    IF "Versions" \in it.Triggers.d["Lync"].keys
    THEN it.Triggers.d["Lync"].Versions ELSE <<>>

ClaimName(env) ==
    IF "munki_update_name" \in env.keys THEN env.munki_update_name
    ELSE MUNKI_UPDATE_NAME

\* C5: for a valid entry getRequiresFromUpdateItem returns none when
\* Versions is absent or empty or when its minimum under dotted
\* loose-version order is "14.0.0", and otherwise the one-element list
\* ["<updateName>-<min>"], <min> being that minimum wherever it stands in
\* the list.
C5_RequiresIsMinimum ==
    (tres.op = "getRequiresFromUpdateItem" /\ ClaimValid(titem)) =>
        LET vs == ClaimVersions(titem)
        IN  IF vs = <<>> THEN tres.out = Return(<<>>)
            ELSE IF ClaimMinimum(vs) = <<"1", "4", ".", "0", ".", "0">>
            THEN tres.out = Return(<<>>)
            ELSE tres.out = Return(<<ClaimName(tname) \o <<"-">> \o ClaimMinimum(vs)>>)

C5_Witness ==
    /\ tres.op = "getRequiresFromUpdateItem"
    /\ ClaimValid(titem)
    /\ ClaimVersions(titem) = <<V14010, V91, V1401>>
    /\ tres.out = Return(<<MUNKI_UPDATE_NAME \o <<"-">> \o V91>>)


\* the entry has been selected: lines 197-218 have run and returned
Selected == pc \notin {"idle", "download", "select"} /\ item # NoItem

\* lines 197-218 have run, and returned or raised
SelectionDone ==
    /\ pc \notin {"idle", "download", "select"}
    /\ err.what # "Can't download"

ClaimMaxDate(feed) ==
    CHOOSE d \in {feed[i].Date : i \in 1..Len(feed)} :
        \A i \in 1..Len(feed) : feed[i].Date <= d

ClaimPermutations(feed) ==
    {[i \in 1..Len(feed) |-> feed[p[i]]] : p \in Permutations(1..Len(feed))}

ClaimLastWithDate(feed, d) ==
    feed[CHOOSE i \in 1..Len(feed) :
            /\ feed[i].Date = d
            /\ \A j \in (i + 1)..Len(feed) : feed[j].Date # d]

\* C2 as stated: with the selector "latest", absent or empty, the selected
\* entry has the maximum Date and every permutation of the feed selects the
\* same entry, feeds whose maximum Date is shared included.
C2_SameEntryForEveryPermutation ==
    (Selected /\ VersionSelector(envin) = LATEST) =>
        /\ item.Date = ClaimMaxDate(metadata)
        /\ \A f \in ClaimPermutations(metadata) :
              SelectItem(f, LATEST) = Return(<<item>>)

\* C2 amended: the selected entry has the maximum Date, under every
\* permutation; the same entry is selected for every permutation when one
\* entry alone has the maximum Date; among entries that share the maximum
\* Date the one standing last in the feed is selected.
C2_LatestIsLastOfMaxDate ==
    (Selected /\ VersionSelector(envin) = LATEST) =>
        /\ item.Date = ClaimMaxDate(metadata)
        /\ item = ClaimLastWithDate(metadata, ClaimMaxDate(metadata))
        /\ \A f \in ClaimPermutations(metadata) :
              /\ Returned(SelectItem(f, LATEST))
              /\ SelectItem(f, LATEST).val[1].Date = item.Date
              /\ Cardinality({i \in 1..Len(f) : f[i].Date = item.Date}) = 1 =>
                    SelectItem(f, LATEST) = Return(<<item>>)

C2_Witness ==
    /\ Selected
    /\ VersionSelector(envin) = LATEST
    /\ Len(metadata) = 2
    /\ metadata[1].Date = metadata[2].Date
    /\ metadata[1] # metadata[2]
    /\ item = metadata[2]

ClaimMatches(feed, v) ==
    {i \in 1..Len(feed) : Contains(feed[i].Title, <<" ">> \o v \o <<" ">>)}

\* C3: with an explicit version v, selection succeeds exactly when one
\* entry's Title contains " v ", and selects that entry; otherwise the run
\* fails with the could-not-find-version error, whose message lists the
\* Title of every entry of the feed, and no entry is selected.
C3_ExplicitVersionNeedsOneMatch ==
    (SelectionDone /\ VersionSelector(envin) # LATEST) =>
        LET m == ClaimMatches(metadata, VersionSelector(envin))
        IN  IF Cardinality(m) = 1
            THEN /\ item = metadata[CHOOSE i \in m : TRUE]
                 /\ err.what # "Could not find version"
            ELSE /\ pc = "failed"
                 /\ item = NoItem
                 /\ err.exc = "ProcessorError"
                 /\ err.what = "Could not find version"
                 /\ err.val = <<VersionSelector(envin),
                                [i \in 1..Len(metadata) |-> metadata[i].Title]>>

C3_Witness ==
    /\ SelectionDone
    /\ VersionSelector(envin) = V401
    /\ Len(metadata) = 2
    /\ metadata[1].Title = TitleOf(V1401)
    /\ metadata[2].Title = TitleOf(V401)
    /\ item = metadata[2]

\* C9: with the selector "latest" and a feed of zero entries the run fails
\* with a descriptive processing error, selects no entry and writes no
\* output.
C9_EmptyFeedIsProcessorError ==
    (pc = "failed" /\ SelectionDone /\ metadata = <<>>
        /\ VersionSelector(envin) = LATEST) =>
        /\ err.exc = "ProcessorError"
        /\ item = NoItem
        /\ envout = NoOutput

\* C1 as stated: a run that fails at any stage has written none of url,
\* pkg_name, display_name, additional_pkginfo.
C1_NoOutputOnFailure == pc = "failed" => envout.keys = {}

\* C1 amended: additional_pkginfo and display_name are written only by a
\* run that completes; a run that fails in transport or entry selection has
\* written no output; a run that fails after an entry was selected (OS
\* decoding, trigger validation) has written url and pkg_name of that entry
\* and nothing else.
C1_OnlyUrlAndPkgNameOnFailure ==
    /\ (envout.keys \cap {"additional_pkginfo", "display_name"} # {}) => pc = "done"
    /\ pc = "failed" =>
          IF item = NoItem THEN envout = NoOutput
          ELSE /\ envout.keys = {"url", "pkg_name"}
               /\ envout.url = item.Location
               /\ envout.pkg_name = item.Payload

C1_Witness ==
    /\ pc = "failed"
    /\ err.what = "Unexpected Trigger Condition"
    /\ envout.keys = {"url", "pkg_name"}

ClaimDependencyNotes ==
    SelectSeq(outputs, LAMBDA n : n.what = "Update requires previous update version")

\* C8: in a successful run the record contains requires exactly when the
\* resolver returned a key "<updateName>-<smallestVersion>", and then one
\* dependency notification is emitted and cites <smallestVersion>, for the
\* default update name and for a name that contains "-".
C8_NotificationCitesSmallestVersion ==
    pc = "done" =>
        LET r == getRequiresFromUpdateItem(item, envin)
        IN  /\ "requires" \in pkginfo.keys <=> r.val # <<>>
            /\ r.val = <<>> => ClaimDependencyNotes = <<>>
            /\ r.val # <<>> =>
                  /\ pkginfo.requires = r.val
                  /\ Len(ClaimDependencyNotes) = 1
                  /\ ClaimDependencyNotes[1].arg = ClaimMinimum(ClaimVersions(item))

ClaimHasPlist(it) ==
    \E k \in it.Triggers.keys :
        /\ "File" \in it.Triggers.d[k].keys
        /\ it.Triggers.d[k].File = "Contents/Info.plist"

\* the Title without its "Lync " prefix and its " Update" suffix
ClaimTitleVersion(title) ==
    LET a == IF StartsWith(title, <<"L", "y", "n", "c", " ">>)
             THEN SubSeq(title, 6, Len(title)) ELSE title
    IN  IF Len(a) >= 7 /\ SubSeq(a, Len(a) - 6, Len(a)) = <<" ", "U", "p", "d", "a", "t", "e">>
        THEN SubSeq(a, 1, Len(a) - 7) ELSE a

ClaimDescriptor(it) ==
    [type |-> "bundle",
     path |-> "/Applications/Lync/Contents/Info.plist",
     version_comparison_key |-> "CFBundleShortVersionString",
     CFBundleShortVersionString |-> ClaimTitleVersion(it.Title),
     CFBundleVersion |-> ClaimTitleVersion(it.Title)]

\* C10: for a valid entry getInstallsItems returns none when no trigger
\* has File "Contents/Info.plist", and otherwise, whichever trigger has it,
\* one bundle descriptor with the fixed path, the short-version comparison
\* key and both versions equal to the Title without "Lync " and " Update";
\* the record contains installs exactly when a descriptor was returned.
C10_InstallsFromAnyTrigger ==
    pc \in {"requires", "finish", "done"} =>
        /\ ClaimValid(item)
        /\ getInstallsItems(item) =
              Return(IF ClaimHasPlist(item) THEN <<ClaimDescriptor(item)>> ELSE <<>>)
        /\ "installs" \in pkginfo.keys <=> ClaimHasPlist(item)
        /\ ClaimHasPlist(item) => pkginfo.installs = <<ClaimDescriptor(item)>>
        /\ pc = "done" => envout.additional_pkginfo = pkginfo

C10_Witness ==
    /\ pc = "done"
    /\ "File" \notin item.Triggers.d["Lync"].keys
    /\ "installs" \in envout.additional_pkginfo.keys
    /\ envout.additional_pkginfo.installs[1].CFBundleVersion = V401

====
